---- MODULE Spec2Model ----
(***************************************************************************)
(* ETH-Sim: the DEX and the Oracle price-feed simulators.                  *)
(*                                                                         *)
(* Both processes run one io_context on one thread (ioc.run() in main), so *)
(* a coroutine runs without interleaving from one co_await to the next.    *)
(* The ticker's sink writes are synchronous (client->write), so one ticker *)
(* iteration, from the expiry of its timer to the next timer wait, is one  *)
(* step.  A session is one step per suspension point.                      *)
(*                                                                         *)
(* Units: monotonic time in ms; prices in hundredths (0.01 is 1);          *)
(* probabilities in percent (1.0 is 100).                                  *)
(***************************************************************************)
EXTENDS Integers, Sequences, FiniteSets, TLC

\* ---------------------------------------------------------------- bounds
\* Ticker iterations explored.
MaxTicks == 2

\* Requests answered on one HTTP connection.
MaxRequests == 2

\* Seconds after which a read of an HTTP session expires.
HttpIdleSeconds == 30

\* Characters of the bind addresses tried at startup.
MaxAddrLen == 7

\* Iterations of each of the two runs that are compared from one seed.
TwinTicks == 3

\* How late (ms) a timer expiry is observed beyond the sampled delay.
Lateness == {0, 1}

\* The connections of a run, each the sink handle of one WebSocket stream,
\* and the iteration order of the std::set that holds them.
Sinks == {"s1", "s2"}
SinkOrder == <<"s1", "s2">>

\* Outcomes of the engine's normal draw normal_(rng_), as in a binomial
\* tree: one standard deviation down or up.
NormalDraws == {-1, 1}

\* Configurations explored (configs/dex.yaml and configs/oracle.yaml are
\* inputs of the run): the DEX feed with mixed, all-drop and all-duplicate
\* fault probabilities and a flat price, the Oracle feed with mixed fault
\* probabilities and a price that moves, with drift up or down.  gbm_mu is
\* drift_ * dt and gbm_sigma is volatility_ * sqrt(dt), both per mille.
Configs(f) ==
    [ faults : IF f = "dex"
               THEN { [p_drop |-> 50, p_dup |-> 50],
                      [p_drop |-> 100, p_dup |-> 0],
                      [p_drop |-> 0, p_dup |-> 100] }
               ELSE { [p_drop |-> 50, p_dup |-> 50] },
      tick_ms : {[min |-> 1, max |-> 1]},
      delay_ms : {[min |-> 0, max |-> 0]},
      stale_after_ms : {1},
      deviation_bps : {500},
      heartbeat_ms : {2},
      gbm_mu : IF f = "dex" THEN {0} ELSE {-50, 50},
      gbm_sigma : IF f = "dex" THEN {0} ELSE {50},
      price_start : {100} ]

VARIABLES
    feed,                   \* which process this run is: "dex" or "oracle"
    config,                 \* DexConfig / OracleConfig
    steady_clock,           \* monotonic time when the ticker began its wait
    tick_ms,                \* run_price_ticker: the delay being slept
    seq,                    \* run_price_ticker: seq
    last_tick_time,         \* run_price_ticker: last_tick_time
    price_,                 \* GbmPriceEngine::price_
    metrics,                \* sim_core::Metrics
    last_price_,            \* snapshot store (optional: <<>> or <<msg>>)
    last_published_price_,  \* OracleState (optional)
    last_publish_time_,     \* OracleState (optional)
    clients_,               \* subscriber registry
    pc,                     \* per connection: position of its session
    alive,                  \* per connection: the peer is there, I/O succeeds
    received,               \* per sink: frames written to it successfully
    subscribed_at,          \* history, per sink: ticks at its add_client
    ticking,                \* the run_price_ticker coroutine has not ended
    fan,                    \* broadcast_price: the pass in progress, if any
    stalled,                \* per connection: the peer has stopped reading
    twin,                   \* two runs of the ticker from one seed, if any
    boot,                   \* main: the start of the process, if followed
    http,                   \* an HTTP session (handle_http_session), if any
    ticks,                  \* history: completed ticker iterations
    generated,              \* history: one entry per generate_tick call
    passes,                 \* history: broadcast passes of the last iteration
    decisions               \* history: decisions taken in the last iteration

vars == << feed, config, steady_clock, tick_ms, seq, last_tick_time, price_,
           metrics, last_price_, last_published_price_, last_publish_time_,
           clients_, pc, alive, received, subscribed_at, ticking, fan,
           stalled, twin, boot, http, ticks, generated, passes, decisions >>

\* ------------------------------------------------------------- sim_core
Abs(x) == IF x < 0 THEN -x ELSE x

\* Doubles beyond the finite prices: 1000000000 stands for +infinity and
\* -1 for NaN (a price is never negative).  std::max(a, b) is
\* (a < b) ? b : a, and every comparison with NaN is false.
Max(a, b) == IF a = -1 THEN a ELSE IF a < b THEN b ELSE a

\* utils.hpp current_time_ms: the wall clock, read at monotonic time now.
current_time_ms(now) == 1000 + now

\* rng.hpp happens: the values it can return for a probability (percent).
happens_always_draws(probability) == {TRUE, FALSE}
happens_swapped(probability) ==
    IF probability <= 0 THEN {TRUE}
    ELSE IF probability >= 100 THEN {FALSE}
    ELSE {TRUE, FALSE}
happens(probability) ==
    IF probability <= 0 THEN {FALSE}
    ELSE IF probability >= 100 THEN {TRUE}
    ELSE {TRUE, FALSE}

\* rng.hpp sample_range: the values it can return.
sample_range(min, max) == IF min >= max THEN {min} ELSE min..max

\* gbm_engine.hpp: the price floor 0.01 (std::max(price_, 0.01)) and next_tick.
PriceFloor == 1
\* std::exp of a relative change given per mille, per mille: +infinity
\* above 709.78, exactly 0 below -745.13, positive between.
exp_per_mille(relative_change) ==
    IF relative_change >= 710000 THEN 1000000000
    ELSE IF relative_change <= -746000 THEN 0
    ELSE IF relative_change <= -1000 THEN 1
    ELSE 1000 + relative_change

\* price_ *= factor, the factor per mille: infinity times 0 is NaN.
times_per_mille(price, factor) ==
    IF price = -1 THEN -1
    ELSE IF factor = 1000000000
         THEN (IF price = 0 THEN -1 ELSE 1000000000)
    ELSE IF price = 1000000000
         THEN (IF factor = 0 THEN -1 ELSE 1000000000)
    ELSE (price * factor) \div 1000
next_tick_clocked(price, cfg, z, ts, src_seq, source, delay_ms, stale) ==
    [ ts |-> ts,
      price |-> Max(times_per_mille(price,
                        exp_per_mille(cfg.gbm_mu + cfg.gbm_sigma * z
                                      + 10 * (ts % 2))), PriceFloor),
      source |-> source,
      src_seq |-> src_seq,
      delay_ms |-> delay_ms,
      stale |-> stale ]
next_tick_delay_by_price(price, cfg, z, ts, src_seq, source, delay_ms, stale) ==
    LET moved == Max(times_per_mille(price,
                         exp_per_mille(cfg.gbm_mu + cfg.gbm_sigma * z)),
                     PriceFloor)
    IN [ ts |-> ts,
         price |-> moved,
         source |-> source,
         src_seq |-> src_seq,
         delay_ms |-> delay_ms + ((moved \div 10) % 2),
         stale |-> stale ]
next_tick(price, cfg, z, ts, src_seq, source, delay_ms, stale) ==
    [ ts |-> ts,
      price |-> Max(times_per_mille(price,
                        exp_per_mille(cfg.gbm_mu + cfg.gbm_sigma * z)),
                    PriceFloor),
      source |-> source,
      src_seq |-> src_seq,
      delay_ms |-> delay_ms,
      stale |-> stale ]

\* types.hpp WsMessage::create_price + to_json_string: the price frame.
price_frame(msg) ==
    [ type |-> "price", ts |-> msg.ts, price |-> msg.price,
      source |-> msg.source, src_seq |-> msg.src_seq,
      delay_ms |-> msg.delay_ms, stale |-> msg.stale ]

\* types.hpp WsMessage::create_subscription + to_json_string: the ack frame.
subscription_frame(id, status) ==
    [ type |-> "subscription", id |-> id, status |-> status ]

feed_id_dex_only == "dex_ticks"
feed_id == IF feed = "dex" THEN "dex_ticks" ELSE "oracle_prices"

\* handle_http_request, the snapshot endpoint: the prices list of the body
\* holds the stored tick when there is one.
snapshot_prices(last_price) ==
    IF last_price = <<>> THEN <<>> ELSE <<last_price[1]>>

\* -------------------------------------------------------------- metrics
ZeroMetrics ==
    [ price_ticks_generated |-> 0, ws_frames_sent |-> 0,
      ws_frames_dropped |-> 0, ws_frames_duplicated |-> 0 ]

\* get_metrics().price_ticks_generated++
count_generated_after_reset(m) ==
    [ZeroMetrics EXCEPT !.price_ticks_generated = 1]
count_generated(m) == [m EXCEPT !.price_ticks_generated = @ + 1]

\* get_metrics().ws_frames_dropped++
count_dropped_not_counted(m) == m
count_dropped_as_sent(m) == [m EXCEPT !.ws_frames_sent = @ + 1]
count_dropped(m) == [m EXCEPT !.ws_frames_dropped = @ + 1]

\* get_metrics().ws_frames_sent++
count_sent_per_sink(m) ==
    [m EXCEPT !.ws_frames_sent = @ + Cardinality(clients_)]
count_sent_as_duplicated(m) == [m EXCEPT !.ws_frames_duplicated = @ + 1]
count_sent(m) == [m EXCEPT !.ws_frames_sent = @ + 1]

\* get_metrics().ws_frames_duplicated++
count_duplicated(m) == [m EXCEPT !.ws_frames_duplicated = @ + 1]

\* Oracle ticker, gate rejected (if (!should_pub) { last_tick_time = now;
\* continue; }): the counters after the iteration.
count_rejected_as_generated(m) == count_generated(m)
count_rejected(m) == m

\* ------------------------------------------------- ticker: seq and stale
\* seq++ on the drop path.
seq_after_drop_forgotten(s) == s
seq_after_drop(s) == s + 1

\* seq++ after the broadcast.
seq_after_broadcast_forgotten(s) == s
seq_after_broadcast(s) == s + 1

\* Oracle ticker, gate rejected: seq is not touched.
seq_after_reject(s) == s

\* bool stale = elapsed_since_last > stale_after_ms
stale_flag_inclusive(now, last, stale_after_ms) ==
    (now - last) >= stale_after_ms
stale_flag(now, last, stale_after_ms) == (now - last) > stale_after_ms

\* --------------------------------------------------- registry, broadcast
\* add_client / remove_client
add_client(cl, c) == cl \cup {c}
remove_client(cl, c) == cl \ {c}

\* The fan-out loop of broadcast_price from position i of the registry's
\* iteration order: the sinks on which write is called.  bad is the set of
\* sinks whose write throws; the catch inside the loop swallows it and the
\* loop goes on.
RECURSIVE fan_out_abort(_, _, _)
fan_out_abort(i, cl, bad) ==
    IF i > Len(SinkOrder) THEN {}
    ELSE IF SinkOrder[i] \notin cl THEN fan_out_abort(i + 1, cl, bad)
    ELSE IF SinkOrder[i] \in bad THEN {SinkOrder[i]}
    ELSE {SinkOrder[i]} \cup fan_out_abort(i + 1, cl, bad)

RECURSIVE fan_out(_, _, _)
fan_out(i, cl, bad) ==
    IF i > Len(SinkOrder) THEN {}
    ELSE IF SinkOrder[i] \notin cl THEN fan_out(i + 1, cl, bad)
    ELSE {SinkOrder[i]} \cup fan_out(i + 1, cl, bad)

\* broadcast_price(msg): the snapshot store is set, the frame is serialized
\* once, and the loop runs over the registry; the registry is not changed.
broadcast_price_store_skipped(msg, cl, bad) ==
    LET attempted == fan_out(1, cl, bad)
    IN [ last_price |-> <<>>,
         frame |-> price_frame(msg),
         registry |-> cl,
         attempted |-> attempted,
         failed |-> attempted \cap bad,
         clients |-> cl ]
broadcast_price(msg, cl, bad) ==
    LET attempted == fan_out(1, cl, bad)
    IN [ last_price |-> <<msg>>,
         frame |-> price_frame(msg),
         registry |-> cl,
         attempted |-> attempted,
         failed |-> attempted \cap bad,
         clients |-> cl ]

\* The frames on the sinks after a pass.
written_in_front(rcv, pass) ==
    [ s \in Sinks |->
        IF s \in pass.attempted \ pass.failed
        THEN <<pass.frame>> \o rcv[s] ELSE rcv[s] ]
written(rcv, pass) ==
    [ s \in Sinks |->
        IF s \in pass.attempted \ pass.failed
        THEN Append(rcv[s], pass.frame) ELSE rcv[s] ]

\* broadcast_price, try { client->write(...) } catch (const std::exception&):
\* no write error leaves the pass, so run_price_ticker goes on after it.
survives_pass_only_clean(pass) == pass.failed = {}
survives_pass(pass) == TRUE

\* The history record of a pass.
pass_record(msg, pass) ==
    [ msg |-> msg, registry |-> pass.registry,
      attempted |-> pass.attempted, failed |-> pass.failed ]

\* ---------------------------------------------------- Oracle publication
\* static_cast<uint32_t>(std::abs((current - last) / last) * 10000.0)
deviation_bps_signed(current_price, last_price) ==
    ((current_price - last_price) * 10000) \div last_price
deviation_bps(current_price, last_price) ==
    (Abs(current_price - last_price) * 10000) \div last_price

\* OracleState::should_publish
should_publish_inverted(lpp, lpt, current_price, now, cfg) ==
    IF Len(lpp) = 0 THEN TRUE
    ELSE IF deviation_bps(current_price, lpp[1]) <= cfg.deviation_bps THEN TRUE
    ELSE IF Len(lpt) > 0 /\ now - lpt[1] >= cfg.heartbeat_ms THEN TRUE
    ELSE FALSE

should_publish_strict_heartbeat(lpp, lpt, current_price, now, cfg) ==
    IF Len(lpp) = 0 THEN TRUE
    ELSE IF deviation_bps(current_price, lpp[1]) >= cfg.deviation_bps THEN TRUE
    ELSE IF Len(lpt) > 0 /\ now - lpt[1] > cfg.heartbeat_ms THEN TRUE
    ELSE FALSE

should_publish(lpp, lpt, current_price, now, cfg) ==
    IF Len(lpp) = 0 THEN TRUE
    ELSE IF deviation_bps(current_price, lpp[1]) >= cfg.deviation_bps THEN TRUE
    ELSE IF Len(lpt) > 0 /\ now - lpt[1] >= cfg.heartbeat_ms THEN TRUE
    ELSE FALSE

\* OracleState::mark_published
mark_published_price_only(lpp, lpt, price, now) ==
    [ last_published_price |-> <<price>>, last_publish_time |-> lpt ]
mark_published(lpp, lpt, price, now) ==
    [ last_published_price |-> <<price>>, last_publish_time |-> <<now>> ]

\* ------------------------------------------------------------------ Init
Init ==
    /\ feed \in {"dex", "oracle"}
    /\ config \in Configs(feed)
    /\ steady_clock = 0
    /\ tick_ms \in sample_range(config.tick_ms.min, config.tick_ms.max)
    /\ seq = 0
    /\ last_tick_time = 0
    /\ price_ = config.price_start
    /\ metrics = ZeroMetrics
    /\ last_price_ = <<>>
    /\ last_published_price_ = <<>>
    /\ last_publish_time_ = <<>>
    /\ clients_ = {}
    /\ pc = [s \in Sinks |-> "none"]
    /\ alive = [s \in Sinks |-> TRUE]
    /\ received = [s \in Sinks |-> <<>>]
    /\ subscribed_at = [s \in Sinks |-> <<>>]
    /\ ticking = TRUE
    /\ fan = <<>>
    /\ stalled = [s \in Sinks |-> FALSE]
    /\ twin = <<>>
    /\ boot = <<>>
    /\ http = <<>>
    /\ ticks = 0
    /\ generated = <<>>
    /\ passes = <<>>
    /\ decisions = <<>>

\* ---------------------------------------------------------------- ticker
\* What every iteration does whatever its path: the clock has advanced to
\* now, the engine holds the new price, the next delay has been sampled and
\* the ticker waits again.
IterationEnds(now, msg, next_ms) ==
    /\ steady_clock' = now
    /\ tick_ms' = next_ms
    /\ price_' = msg.price
    /\ ticks' = ticks + 1
    /\ UNCHANGED << feed, config, pc, alive, subscribed_at, fan, stalled,
                    twin, boot, http >>

\* A write on a sink throws when its connection is broken.
failing(cl) == {c \in cl : ~alive[c]}

\* The broadcast branch shared by both tickers: broadcast_price(msg), the
\* duplicate decision, and on a duplicate broadcast_price(msg) again.
BroadcastAndDuplicate(msg, p_dup, m) ==
    \E dup \in happens(p_dup) :
        LET first == broadcast_price(msg, clients_, failing(clients_))
        IN IF dup
           THEN     LET second == broadcast_price(msg, first.clients,
                                                  failing(first.clients))
                    IN /\ ticking' = (survives_pass(first) /\ survives_pass(second))
                       /\ last_price_' = second.last_price
                       /\ clients_' = second.clients
                       /\ received' = written(written(received, first), second)
                       /\ metrics' = count_duplicated(count_sent(m))
                       /\ passes' = << pass_record(msg, first),
                                       pass_record(msg, second) >>
                       /\ decisions' = << "drop", "broadcast", "dup",
                                          "broadcast" >>
           ELSE /\ ticking' = survives_pass(first)
                /\ last_price_' = first.last_price
                /\ clients_' = first.clients
                /\ received' = written(received, first)
                /\ metrics' = count_sent(m)
                /\ passes' = << pass_record(msg, first) >>
                /\ decisions' = << "drop", "broadcast", "dup" >>

Outcome(msg, now, outcome) ==
    [ src_seq |-> msg.src_seq, outcome |-> outcome ]

\* dex_sim run_price_ticker: one iteration of the while loop.
DexTickerIteration ==
    /\ feed = "dex"
    /\ ticking
    /\ ticks < MaxTicks
    /\ \E late \in Lateness, z \in NormalDraws,
          delay_ms \in sample_range(config.delay_ms.min, config.delay_ms.max),
          next_ms \in sample_range(config.tick_ms.min, config.tick_ms.max),
          drop \in happens(config.faults.p_drop) :
        LET now == steady_clock + tick_ms + late
            stale == stale_flag(now, last_tick_time, config.stale_after_ms)
            msg == next_tick(price_, config, z, current_time_ms(now), seq,
                             "dex", delay_ms, stale)
            m == count_generated(metrics)
        IN /\ IterationEnds(now, msg, next_ms)
           /\ last_tick_time' = now
           /\ UNCHANGED << last_published_price_, last_publish_time_ >>
           /\ IF drop
              THEN /\ metrics' = count_dropped(m)
                   /\ seq' = seq_after_drop(seq)
                   /\ generated' = Append(generated, Outcome(msg, now, "dropped"))
                   /\ passes' = <<>>
                   /\ decisions' = << "drop" >>
                   /\ UNCHANGED << last_price_, clients_, received, ticking >>
              ELSE /\ BroadcastAndDuplicate(msg, config.faults.p_dup, m)
                   /\ seq' = seq_after_broadcast(seq)
                   /\ generated' = Append(generated, Outcome(msg, now, "broadcast"))

\* oracle_sim run_price_ticker: one iteration of the while loop.
OracleTickerIteration ==
    /\ feed = "oracle"
    /\ ticking
    /\ ticks < MaxTicks
    /\ \E late \in Lateness, z \in NormalDraws,
          delay_ms \in sample_range(config.delay_ms.min, config.delay_ms.max),
          next_ms \in sample_range(config.tick_ms.min, config.tick_ms.max) :
        LET now == steady_clock + tick_ms + late
            stale == stale_flag(now, last_tick_time, config.stale_after_ms)
            msg == next_tick(price_, config, z, current_time_ms(now), seq,
                             "chainlink", delay_ms, stale)
            should_pub == should_publish(last_published_price_,
                                         last_publish_time_, msg.price, now,
                                         config)
            marked == mark_published(last_published_price_,
                                     last_publish_time_, msg.price, now)
        IN /\ IterationEnds(now, msg, next_ms)
           /\ last_tick_time' = now
           /\ IF ~should_pub
              THEN /\ metrics' = count_rejected(metrics)
                   /\ seq' = seq_after_reject(seq)
                   /\ generated' = Append(generated, Outcome(msg, now, "rejected"))
                   /\ passes' = <<>>
                   /\ decisions' = <<>>
                   /\ UNCHANGED << last_price_, clients_, received, ticking,
                                   last_published_price_, last_publish_time_ >>
              ELSE \E drop \in happens(config.faults.p_drop) :
                   LET m == count_generated(metrics)
                   IN /\ last_published_price_' = marked.last_published_price
                      /\ last_publish_time_' = marked.last_publish_time
                      /\ IF drop
                         THEN /\ metrics' = count_dropped(m)
                              /\ seq' = seq_after_drop(seq)
                              /\ generated' =
                                   Append(generated, Outcome(msg, now, "dropped"))
                              /\ passes' = <<>>
                              /\ decisions' = << "drop" >>
                              /\ UNCHANGED << last_price_, clients_, received, ticking >>
                         ELSE /\ BroadcastAndDuplicate(msg, config.faults.p_dup, m)
                              /\ seq' = seq_after_broadcast(seq)
                              /\ generated' =
                                   Append(generated, Outcome(msg, now, "broadcast"))

\* -------------------------------------------------------------- sessions
TickerVars == << steady_clock, tick_ms, seq, last_tick_time, price_, metrics,
                 last_price_, last_published_price_, last_publish_time_,
                 ticking, fan, ticks, generated, passes, decisions >>

\* The end of handle_websocket_session through its catch block
\* (catch (const std::exception& e) { }): the registry afterwards.
session_ends(cl, c) == cl

\* listen accepts one connection at a time: c is the next one when the
\* connections before it have been accepted.
NextConnection(c) ==
    /\ pc[c] = "none"
    /\ \A i \in 1..Len(SinkOrder) :
          SinkOrder[i] = c => \A j \in 1..(i - 1) : pc[SinkOrder[j]] # "none"

\* listen + handle_http_session + handle_websocket_session: a connection is
\* accepted, its first request is an upgrade and async_accept completes:
\* add_client(ws), then the acknowledgement write is started.
WsAccepted(c) ==
    /\ NextConnection(c)
    /\ clients_' = add_client(clients_, c)
    /\ subscribed_at' = [subscribed_at EXCEPT ![c] = <<ticks>>]
    /\ pc' = [pc EXCEPT ![c] = "ack_write"]
    /\ UNCHANGED << feed, config, alive, received >>
    /\ UNCHANGED << stalled, twin, boot, http >>
    /\ UNCHANGED TickerVars

\* async_accept throws: the session ends before add_client.
WsAcceptFails(c) ==
    /\ NextConnection(c)
    /\ pc' = [pc EXCEPT ![c] = "done"]
    /\ UNCHANGED << feed, config, clients_, alive, received, subscribed_at >>
    /\ UNCHANGED << stalled, twin, boot, http >>
    /\ UNCHANGED TickerVars

\* The acknowledgement write completes; the read loop starts.
AckWritten(c) ==
    /\ pc[c] = "ack_write"
    /\ alive[c]
    /\ received' = [received EXCEPT
                      ![c] = Append(@, subscription_frame(feed_id, "subscribed"))]
    /\ pc' = [pc EXCEPT ![c] = "ws_read"]
    /\ UNCHANGED << feed, config, clients_, alive, subscribed_at >>
    /\ UNCHANGED << stalled, twin, boot, http >>
    /\ UNCHANGED TickerVars

\* The acknowledgement write throws (write error): the session ends.
AckWriteFails(c) ==
    /\ pc[c] = "ack_write"
    /\ ~alive[c]
    /\ clients_' = session_ends(clients_, c)
    /\ pc' = [pc EXCEPT ![c] = "done"]
    /\ UNCHANGED << feed, config, alive, received, subscribed_at >>
    /\ UNCHANGED << stalled, twin, boot, http >>
    /\ UNCHANGED TickerVars

\* async_read throws (read error or client disconnect): the session ends.
WsReadFails(c) ==
    /\ pc[c] = "ws_read"
    /\ ~alive[c]
    /\ clients_' = session_ends(clients_, c)
    /\ pc' = [pc EXCEPT ![c] = "done"]
    /\ UNCHANGED << feed, config, alive, received, subscribed_at >>
    /\ UNCHANGED << stalled, twin, boot, http >>
    /\ UNCHANGED TickerVars

\* The environment: the peer disconnects or the connection fails while the
\* session is subscribed.
ConnectionBreaks(c) ==
    /\ pc[c] \in {"ack_write", "ws_read"}
    /\ alive[c]
    /\ alive' = [alive EXCEPT ![c] = FALSE]
    /\ UNCHANGED << feed, config, clients_, pc, received, subscribed_at >>
    /\ UNCHANGED << stalled, twin, boot, http >>
    /\ UNCHANGED TickerVars

Next ==
    \/ DexTickerIteration
    \/ OracleTickerIteration
    \/ \E c \in Sinks : WsAccepted(c)
    \/ \E c \in Sinks : WsAcceptFails(c)
    \/ \E c \in Sinks : AckWritten(c)
    \/ \E c \in Sinks : AckWriteFails(c)
    \/ \E c \in Sinks : WsReadFails(c)
    \/ \E c \in Sinks : ConnectionBreaks(c)

Spec == Init /\ [][Next]_vars

\* The ticker is a coroutine on the io_context that main runs: when its timer
\* has expired, ioc.run() resumes it.
FairSpec ==
    /\ Spec
    /\ WF_vars(DexTickerIteration)
    /\ WF_vars(OracleTickerIteration)

\* ===================================================== a pass, write by write
\* broadcast_price writes to the sinks one after the other with the
\* synchronous client->write, on the one thread that runs the io_context:
\* here every write is a step of its own, and a write on a sink whose peer
\* has stopped reading does not return.

\* The position in SinkOrder of the first registered sink at or after i
\* (Len(SinkOrder) + 1 when there is none): where the for loop is next.
RECURSIVE next_sink(_, _)
next_sink(i, cl) ==
    IF i > Len(SinkOrder) THEN i
    ELSE IF SinkOrder[i] \in cl THEN i
    ELSE next_sink(i + 1, cl)

\* broadcast_price is entered for msg over the registry cl.
pass_begins(msg, now, next_ms, cl, second) ==
    [ msg |-> msg, now |-> now, next_ms |-> next_ms, registry |-> cl,
      i |-> next_sink(1, cl), attempted |-> {}, failed |-> {},
      second |-> second ]

\* The sink the pass in progress is writing to.
writing_to(c) ==
    /\ fan # <<>>
    /\ fan[1].i <= Len(SinkOrder)
    /\ SinkOrder[fan[1].i] = c

\* The ticker wakes, generates a tick and takes an iteration without a
\* pass: the tick is dropped or the Oracle gate rejects it.
IterationWithoutPass ==
    /\ fan = <<>>
    /\ DexTickerIteration \/ OracleTickerIteration
    /\ passes' = <<>>

\* The ticker wakes, generates a tick that is neither rejected nor dropped
\* and enters broadcast_price(msg).
PassBegins ==
    /\ ticking
    /\ fan = <<>>
    /\ ticks < MaxTicks
    /\ \E late \in Lateness, z \in NormalDraws,
          delay_ms \in sample_range(config.delay_ms.min, config.delay_ms.max),
          next_ms \in sample_range(config.tick_ms.min, config.tick_ms.max),
          drop \in happens(config.faults.p_drop) :
        LET now == steady_clock + tick_ms + late
            stale == stale_flag(now, last_tick_time, config.stale_after_ms)
            msg == next_tick(price_, config, z, current_time_ms(now), seq,
                             IF feed = "dex" THEN "dex" ELSE "chainlink",
                             delay_ms, stale)
        IN /\ feed = "oracle"
                => should_publish(last_published_price_, last_publish_time_,
                                  msg.price, now, config)
           /\ ~drop
           /\ steady_clock' = now
           /\ price_' = msg.price
           /\ metrics' = count_generated(metrics)
           /\ last_price_' = <<msg>>
           /\ fan' = << pass_begins(msg, now, next_ms, clients_, FALSE) >>
           /\ passes' = <<>>
           /\ decisions' = << "drop", "broadcast" >>
    /\ UNCHANGED << feed, config, tick_ms, seq, last_tick_time,
                    last_published_price_, last_publish_time_, clients_, pc,
                    alive, received, subscribed_at, ticking, stalled, twin, boot, http,
                    ticks, generated >>

\* What a write leaves unchanged.
WriteVars == << feed, config, steady_clock, tick_ms, seq, last_tick_time,
                price_, metrics, last_price_, last_published_price_,
                last_publish_time_, clients_, pc, alive, subscribed_at,
                ticking, stalled, twin, boot, http, ticks, generated, passes,
                decisions >>

\* client->write returns: the peer reads, the frame is on the sink.
WriteReturns(c) ==
    /\ writing_to(c)
    /\ alive[c]
    /\ ~stalled[c]
    /\ received' = [received EXCEPT ![c] = Append(@, price_frame(fan[1].msg))]
    /\ fan' = << [fan[1] EXCEPT !.i = next_sink(@ + 1, fan[1].registry),
                                !.attempted = @ \cup {c}] >>
    /\ UNCHANGED WriteVars

\* client->write throws on a broken connection; the catch logs the error.
WriteThrows(c) ==
    /\ writing_to(c)
    /\ ~alive[c]
    /\ fan' = << [fan[1] EXCEPT !.i = next_sink(@ + 1, fan[1].registry),
                                !.attempted = @ \cup {c},
                                !.failed = @ \cup {c}] >>
    /\ UNCHANGED received
    /\ UNCHANGED WriteVars

\* The end of the iteration after its last pass.
PassIterationEnds ==
    /\ last_tick_time' = fan[1].now
    /\ tick_ms' = fan[1].next_ms
    /\ ticks' = ticks + 1
    /\ generated' = Append(generated,
                           Outcome(fan[1].msg, fan[1].now, "broadcast"))
    /\ fan' = <<>>

\* The first broadcast_price(msg) returns: counters, seq, the Oracle's
\* mark_published, the duplicate decision and for a duplicate the entry
\* into the second broadcast_price(msg).
FirstPassReturns ==
    /\ fan # <<>>
    /\ ~fan[1].second
    /\ fan[1].i > Len(SinkOrder)
    /\ metrics' = count_sent(metrics)
    /\ seq' = seq_after_broadcast(seq)
    /\ passes' = << pass_record(fan[1].msg, fan[1]) >>
    /\ ticking' = survives_pass(fan[1])
    /\ IF feed = "oracle"
       THEN LET marked == mark_published(last_published_price_,
                                         last_publish_time_, fan[1].msg.price,
                                         fan[1].now)
            IN /\ last_published_price_' = marked.last_published_price
               /\ last_publish_time_' = marked.last_publish_time
       ELSE UNCHANGED << last_published_price_, last_publish_time_ >>
    /\ \E dup \in happens(config.faults.p_dup) :
        IF dup
        THEN /\ fan' = << pass_begins(fan[1].msg, fan[1].now, fan[1].next_ms,
                                      clients_, TRUE) >>
             /\ decisions' = << "drop", "broadcast", "dup", "broadcast" >>
             /\ UNCHANGED << last_tick_time, tick_ms, ticks, generated >>
        ELSE /\ PassIterationEnds
             /\ decisions' = << "drop", "broadcast", "dup" >>
    /\ UNCHANGED << feed, config, steady_clock, price_, last_price_, clients_,
                    pc, alive, received, subscribed_at, stalled, twin, boot, http >>

\* The duplicate's broadcast_price(msg) returns.
DuplicatePassReturns ==
    /\ fan # <<>>
    /\ fan[1].second
    /\ fan[1].i > Len(SinkOrder)
    /\ metrics' = count_duplicated(metrics)
    /\ passes' = Append(passes, pass_record(fan[1].msg, fan[1]))
    /\ ticking' = (ticking /\ survives_pass(fan[1]))
    /\ PassIterationEnds
    /\ UNCHANGED << feed, config, steady_clock, seq, price_, last_price_,
                    last_published_price_, last_publish_time_, clients_, pc,
                    alive, received, subscribed_at, stalled, twin, boot, http,
                    decisions >>

\* The environment: a subscribed peer stops reading, its window fills.
SinkStalls(c) ==
    /\ pc[c] = "ws_read"
    /\ alive[c]
    /\ ~stalled[c]
    /\ stalled' = [stalled EXCEPT ![c] = TRUE]
    /\ UNCHANGED << feed, config, clients_, pc, alive, received,
                    subscribed_at, twin, boot, http >>
    /\ UNCHANGED TickerVars

\* The environment: the peer reads again.
SinkDrains(c) ==
    /\ stalled[c]
    /\ stalled' = [stalled EXCEPT ![c] = FALSE]
    /\ UNCHANGED << feed, config, clients_, pc, alive, received,
                    subscribed_at, twin, boot, http >>
    /\ UNCHANGED TickerVars

\* The sessions are coroutines of the same thread: none is resumed while
\* the ticker is inside broadcast_price.
SessionStep_during_pass ==
    \E c \in Sinks :
        \/ WsAccepted(c)
        \/ WsAcceptFails(c)
        \/ AckWritten(c)
        \/ AckWriteFails(c)
        \/ WsReadFails(c)
SessionStep ==
    /\ fan = <<>>
    /\ \E c \in Sinks :
        \/ WsAccepted(c)
        \/ WsAcceptFails(c)
        \/ AckWritten(c)
        \/ AckWriteFails(c)
        \/ WsReadFails(c)

WritesInit ==
    /\ Init
    /\ config.faults = [p_drop |-> 50, p_dup |-> 50]

WritesNext ==
    \/ IterationWithoutPass
    \/ PassBegins
    \/ \E c \in Sinks : WriteReturns(c)
    \/ \E c \in Sinks : WriteThrows(c)
    \/ FirstPassReturns
    \/ DuplicatePassReturns
    \/ SessionStep
    \/ \E c \in Sinks : ConnectionBreaks(c)
    \/ \E c \in Sinks : SinkStalls(c)
    \/ \E c \in Sinks : SinkDrains(c)

SpecWrites == WritesInit /\ [][WritesNext]_vars

\* ================================================== two runs from one seed
\* The generators made explicit: a std::mt19937_64 is a state that each
\* draw advances, a deterministic function of its seed (here a full-period
\* congruential generator on 0..15), so that two runs started from the same
\* seed can be compared draw by draw.

Seeds == 0..15

\* std::hash<std::string> of the stream labels: some distinct values.
label_hash(label) ==
    CASE label = "DEX" -> 1
      [] label = "DEX_TICKER" -> 6
      [] label = "ORACLE" -> 4
      [] label = "ORACLE_TICKER" -> 11

\* rng.hpp create_labeled_rng: seed ^ hash(label), a bijection of the seed
\* for each label.
create_labeled_rng(seed, label) == (seed + label_hash(label)) % 16

\* One draw of the generator: its next state, which is also its output.
rng_draw(rng) == (5 * rng + 3) % 16

\* rng.hpp happens with its generator: no draw when the probability is 0 or 1.
happens_from(rng, probability) ==
    IF probability <= 0 THEN [value |-> FALSE, rng |-> rng]
    ELSE IF probability >= 100 THEN [value |-> TRUE, rng |-> rng]
    ELSE LET out == rng_draw(rng)
         IN [value |-> (out * 100) \div 16 < probability, rng |-> out]

\* rng.hpp sample_range with its generator: no draw when min >= max.
sample_range_from_past_max(rng, min, max) ==
    IF min >= max THEN [value |-> min, rng |-> rng]
    ELSE LET out == rng_draw(rng)
         IN [value |-> min + ((out \div 4) % (max - min + 2)), rng |-> out]
sample_range_from(rng, min, max) ==
    IF min >= max THEN [value |-> min, rng |-> rng]
    ELSE LET out == rng_draw(rng)
         IN [value |-> min + ((out \div 4) % (max - min + 1)), rng |-> out]

\* std::min
Min(a, b) == IF b < a THEN b ELSE a

\* run_price_ticker, the top of the loop: the delay is sampled, then, in the
\* DEX ticker with burst mode on, a fair coin clamps it to at most
\* burst_on_ms or raises it to at least burst_off_ms.
sample_tick_ms_coin_first(f, rng, cfg) ==
    LET burst == f = "dex" /\ cfg.burst_mode
        coin == IF burst THEN happens_from(rng, 50)
                ELSE [value |-> FALSE, rng |-> rng]
        sample == sample_range_from(coin.rng, cfg.tick_ms.min,
                                    cfg.tick_ms.max)
    IN [ value |-> IF ~burst THEN sample.value
                   ELSE IF coin.value
                        THEN Min(sample.value, cfg.burst_on_ms)
                        ELSE Max(sample.value, cfg.burst_off_ms),
         rng |-> sample.rng,
         sample |-> sample.value,
         coin |-> IF burst THEN <<coin.value>> ELSE <<>>,
         from |-> rng ]
sample_tick_ms(f, rng, cfg) ==
    LET burst == f = "dex" /\ cfg.burst_mode
        sample == sample_range_from(rng, cfg.tick_ms.min, cfg.tick_ms.max)
        coin == IF burst THEN happens_from(sample.rng, 50)
                ELSE [value |-> FALSE, rng |-> sample.rng]
    IN [ value |-> IF ~burst THEN sample.value
                   ELSE IF coin.value
                        THEN Min(sample.value, cfg.burst_on_ms)
                        ELSE Max(sample.value, cfg.burst_off_ms),
         rng |-> coin.rng,
         sample |-> sample.value,
         coin |-> IF burst THEN <<coin.value>> ELSE <<>>,
         from |-> rng ]

\* gbm_engine.hpp next_tick, normal_(rng_): one draw of the engine's own
\* generator per tick.
normal_from(rng) ==
    LET out == rng_draw(rng)
    IN [value |-> IF out < 8 THEN -1 ELSE 1, rng |-> out]

\* The generator GbmPriceEngine draws from: its own member rng_.
engine_rng_shared(r) == r.ticker_rng
engine_rng_of(r) == r.engine_rng

\* Pairs of configurations the two runs are started with: the same one
\* twice, two that differ in the fault settings only, two that differ in
\* the engine's parameters only; for the Oracle also a quiet one (no
\* faults, flat price) and one whose price moves by less than the
\* deviation threshold per tick.
TwinBase(f) ==
    [ faults |-> [p_drop |-> 50, p_dup |-> 50],
      tick_ms |-> [min |-> 1, max |-> 2],
      delay_ms |-> [min |-> 0, max |-> 1],
      stale_after_ms |-> 1,
      deviation_bps |-> 500,
      heartbeat_ms |-> 2,
      gbm_mu |-> IF f = "dex" THEN 0 ELSE 50,
      gbm_sigma |-> 50,
      price_start |-> 100,
      burst_mode |-> FALSE,
      burst_on_ms |-> 2,
      burst_off_ms |-> 3 ]

TwinConfigs(f) ==
    LET base == TwinBase(f)
        other_faults == [base EXCEPT !.faults = [p_drop |-> 0, p_dup |-> 50],
                                     !.delay_ms = [min |-> 0, max |-> 0]]
        other_engine == [base EXCEPT !.gbm_mu = -50]
        quiet == [base EXCEPT !.faults = [p_drop |-> 0, p_dup |-> 0],
                              !.gbm_mu = 0, !.gbm_sigma = 0]
        creeping == [base EXCEPT !.faults = [p_drop |-> 0, p_dup |-> 0],
                                 !.gbm_mu = 0, !.gbm_sigma = 30,
                                 !.heartbeat_ms = 5]
        bursty == [base EXCEPT !.burst_mode = TRUE,
                               !.tick_ms = [min |-> 1, max |-> 4]]
    IN { <<base, base>>, <<base, other_faults>>, <<base, other_engine>> }
       \cup (IF f = "oracle"
             THEN { <<quiet, quiet>>, <<creeping, creeping>> }
             ELSE { <<bursty, bursty>> })

\* A run after construction: the engine and the ticker have their labelled
\* generators, the ticker has sampled its first delay and waits.
run_start(f, cfg, seed) ==
    LET first == sample_tick_ms(
                     f, create_labeled_rng(seed, IF f = "dex" THEN "DEX_TICKER"
                                                 ELSE "ORACLE_TICKER"), cfg)
    IN [ cfg |-> cfg,
         tick_draw |-> first,
         engine_rng |-> create_labeled_rng(seed, IF f = "dex" THEN "DEX"
                                                 ELSE "ORACLE"),
         ticker_rng |-> first.rng,
         clock |-> 0,
         tick_ms |-> first.value,
         seq |-> 0,
         last_tick_time |-> 0,
         price |-> cfg.price_start,
         lpp |-> <<>>,
         lpt |-> <<>>,
         ticking |-> TRUE,
         log |-> <<>> ]

\* run_price_ticker, one iteration of the while loop of run r as a function
\* of the run's state, of how late the timer fires and of the sinks whose
\* write fails (bad); both sinks are subscribed.
ticker_iteration(f, r, late, bad) ==
    LET cfg == r.cfg
        now == r.clock + r.tick_ms + late
        delay == sample_range_from(r.ticker_rng, cfg.delay_ms.min,
                                   cfg.delay_ms.max)
        stale == stale_flag(now, r.last_tick_time, cfg.stale_after_ms)
        normal == normal_from(engine_rng_of(r))
        msg == next_tick(r.price, cfg, normal.value, current_time_ms(now),
                         r.seq, IF f = "dex" THEN "dex" ELSE "chainlink",
                         delay.value, stale)
        gate == f = "dex" \/ should_publish(r.lpp, r.lpt, msg.price, now, cfg)
        drop == IF gate THEN happens_from(delay.rng, cfg.faults.p_drop)
                ELSE [value |-> FALSE, rng |-> delay.rng]
        sent == gate /\ ~drop.value
        dup == IF sent THEN happens_from(drop.rng, cfg.faults.p_dup)
               ELSE [value |-> FALSE, rng |-> drop.rng]
        pass == broadcast_price(msg, Sinks, bad)
        marked == mark_published(r.lpp, r.lpt, msg.price, now)
        next == sample_tick_ms(f, dup.rng, cfg)
        outcome == IF ~gate THEN "rejected"
                   ELSE IF drop.value THEN "dropped" ELSE "broadcast"
    IN [ cfg |-> cfg,
         tick_draw |-> next,
         engine_rng |-> normal.rng,
         ticker_rng |-> next.rng,
         clock |-> now,
         tick_ms |-> next.value,
         seq |-> IF ~gate THEN seq_after_reject(r.seq)
                 ELSE IF drop.value THEN seq_after_drop(r.seq)
                 ELSE seq_after_broadcast(r.seq),
         last_tick_time |-> now,
         price |-> msg.price,
         lpp |-> IF f = "oracle" /\ gate THEN marked.last_published_price
                 ELSE r.lpp,
         lpt |-> IF f = "oracle" /\ gate THEN marked.last_publish_time
                 ELSE r.lpt,
         ticking |-> sent => survives_pass(pass),
         log |-> Append(r.log,
                        [ src_seq |-> msg.src_seq,
                          price |-> msg.price,
                          now |-> now,
                          late |-> late,
                          tick_ms |-> r.tick_ms,
                          tick_draw |-> r.tick_draw,
                          delay_ms |-> msg.delay_ms,
                          delay_rngs |-> << r.ticker_rng, delay.rng >>,
                          stale |-> msg.stale,
                          drop |-> IF gate THEN <<drop.value>> ELSE <<>>,
                          dup |-> IF sent THEN <<dup.value>> ELSE <<>>,
                          outcome |-> outcome ]) ]

\* A run takes its next iteration unless its ticker has ended.
run_step(f, r, late, bad) ==
    IF r.ticking /\ Len(r.log) < TwinTicks
    THEN ticker_iteration(f, r, late, bad) ELSE r

TwinInit ==
    /\ feed \in {"dex", "oracle"}
    /\ \E pair \in TwinConfigs(feed), seed \in Seeds :
          /\ config = pair[1]
          /\ twin = << run_start(feed, pair[1], seed),
                       run_start(feed, pair[2], seed) >>
    /\ steady_clock = 0
    /\ tick_ms = twin[1].tick_ms
    /\ seq = 0
    /\ last_tick_time = 0
    /\ price_ = config.price_start
    /\ metrics = ZeroMetrics
    /\ last_price_ = <<>>
    /\ last_published_price_ = <<>>
    /\ last_publish_time_ = <<>>
    /\ clients_ = {}
    /\ pc = [s \in Sinks |-> "none"]
    /\ alive = [s \in Sinks |-> TRUE]
    /\ received = [s \in Sinks |-> <<>>]
    /\ subscribed_at = [s \in Sinks |-> <<>>]
    /\ ticking = TRUE
    /\ fan = <<>>
    /\ stalled = [s \in Sinks |-> FALSE]
    /\ boot = <<>>
    /\ http = <<>>
    /\ ticks = 0
    /\ generated = <<>>
    /\ passes = <<>>
    /\ decisions = <<>>

\* Both runs take their next iteration, each with its own timing and its
\* own write failures.
TwinTick ==
    /\ \E i \in 1..2 : twin[i].ticking /\ Len(twin[i].log) < TwinTicks
    /\ \E late1, late2 \in Lateness, bad1, bad2 \in SUBSET Sinks :
          twin' = << run_step(feed, twin[1], late1, bad1),
                     run_step(feed, twin[2], late2, bad2) >>
    /\ UNCHANGED << feed, config, steady_clock, tick_ms, seq, last_tick_time,
                    price_, metrics, last_price_, last_published_price_,
                    last_publish_time_, clients_, pc, alive, received,
                    subscribed_at, ticking, fan, stalled, boot, http, ticks,
                    generated, passes, decisions >>

TwinNext == TwinTick

SpecTwin == TwinInit /\ [][TwinNext]_vars

\* ======================================================= the engine alone
\* GbmPriceEngine driven tick after tick, as tests/test_core.cpp does, over
\* start prices, drifts and volatilities that include a volatility large
\* enough for std::exp to overflow and to underflow.
EngineConfigs ==
    [ faults : {[p_drop |-> 0, p_dup |-> 0]},
      tick_ms : {[min |-> 1, max |-> 1]},
      delay_ms : {[min |-> 0, max |-> 0]},
      stale_after_ms : {1},
      deviation_bps : {500},
      heartbeat_ms : {2},
      gbm_mu : {-50, 0, 50},
      gbm_sigma : {0, 50, 800000},
      price_start : {1, 50, 100, 200} ]

EngineInit ==
    /\ feed = "dex"
    /\ config \in EngineConfigs
    /\ steady_clock = 0
    /\ tick_ms = config.tick_ms.min
    /\ seq = 0
    /\ last_tick_time = 0
    /\ price_ = config.price_start
    /\ metrics = ZeroMetrics
    /\ last_price_ = <<>>
    /\ last_published_price_ = <<>>
    /\ last_publish_time_ = <<>>
    /\ clients_ = {}
    /\ pc = [s \in Sinks |-> "none"]
    /\ alive = [s \in Sinks |-> TRUE]
    /\ received = [s \in Sinks |-> <<>>]
    /\ subscribed_at = [s \in Sinks |-> <<>>]
    /\ ticking = TRUE
    /\ fan = <<>>
    /\ stalled = [s \in Sinks |-> FALSE]
    /\ twin = <<>>
    /\ boot = <<>>
    /\ http = <<>>
    /\ ticks = 0
    /\ generated = <<>>
    /\ passes = <<>>
    /\ decisions = <<>>

\* engine.next_tick(ts, seq, source, delay_ms, stale): the engine's price
\* becomes the price of the returned tick.
EngineTick ==
    /\ ticks < MaxTicks
    /\ \E z \in NormalDraws :
          price_' = next_tick(price_, config, z, ticks, ticks, "dex", 0,
                              FALSE).price
    /\ ticks' = ticks + 1
    /\ UNCHANGED << feed, config, steady_clock, tick_ms, seq, last_tick_time,
                    metrics, last_price_, last_published_price_,
                    last_publish_time_, clients_, pc, alive, received,
                    subscribed_at, ticking, fan, stalled, twin, boot, http, generated,
                    passes, decisions >>

EngineNext == EngineTick

SpecEngine == EngineInit /\ [][EngineNext]_vars

\* =========================================================== the startup
\* main reads http_bind from the configuration, parses it and binds the
\* acceptor; any exception on the way is fatal (return 1).  A bind address
\* is a string over a few characters: "h" stands for an IP literal (the
\* only host make_address accepts), "7" and "0" are digits.
AddrChars == {"h", ":", "-", "7", "0"}

RECURSIVE Strings(_)
Strings(n) ==
    IF n = 0 THEN {<<>>}
    ELSE LET shorter == Strings(n - 1)
         IN shorter \cup {Append(t, c) : t \in {u \in shorter : Len(u) = n - 1},
                                         c \in AddrChars}

digit(c) == IF c = "7" THEN 7 ELSE 0
is_digit(c) == c \in {"7", "0"}

\* std::string::find(':'): the position of the first colon, 0 for npos.
RECURSIVE find_colon(_, _)
find_colon(text, i) ==
    IF i > Len(text) THEN 0
    ELSE IF text[i] = ":" THEN i
    ELSE find_colon(text, i + 1)

\* The digits std::stoi converts: the longest run of digits from i on.
RECURSIVE digits_from(_, _)
digits_from(text, i) ==
    IF i > Len(text) \/ ~is_digit(text[i]) THEN <<>>
    ELSE <<text[i]>> \o digits_from(text, i + 1)

RECURSIVE decimal(_)
decimal(ds) ==
    IF ds = <<>> THEN 0
    ELSE 10 * decimal(SubSeq(ds, 1, Len(ds) - 1)) + digit(ds[Len(ds)])

\* std::stoi(str): an optional sign, then digits; std::invalid_argument
\* when there is no digit; what follows the digits is ignored.
stoi(text) ==
    LET negative == text # <<>> /\ text[1] = "-"
        ds == digits_from(text, IF negative THEN 2 ELSE 1)
    IN IF ds = <<>> THEN [thrown |-> TRUE, value |-> 0]
       ELSE [thrown |-> FALSE,
             value |-> IF negative THEN 0 - decimal(ds) ELSE decimal(ds)]

\* The conversion of an int to uint16_t.
to_uint16(n) == n % 65536

\* utils.hpp parse_bind_address
parse_bind_address(bind_addr) ==
    LET colon_pos == find_colon(bind_addr, 1)
    IN IF colon_pos = 0
       THEN [thrown |-> TRUE, host |-> <<>>, port |-> 0]
       ELSE LET number == stoi(SubSeq(bind_addr, colon_pos + 1,
                                      Len(bind_addr)))
            IN IF number.thrown
               THEN [thrown |-> TRUE, host |-> <<>>, port |-> 0]
               ELSE [thrown |-> FALSE,
                     host |-> SubSeq(bind_addr, 1, colon_pos - 1),
                     port |-> to_uint16(number.value)]

\* asio::ip::make_address(host) throws unless host is an IP literal.
make_address_throws(host) == host # <<"h">>

BootInit ==
    /\ feed \in {"dex", "oracle"}
    /\ config \in Configs(feed)
    /\ config.faults = [p_drop |-> 50, p_dup |-> 50]
    /\ \E bind_addr \in Strings(MaxAddrLen) :
          boot = << [stage |-> "configured", bind_addr |-> bind_addr,
                     parsed |-> <<>>, bound |-> <<>>, status |-> 0] >>
    /\ steady_clock = 0
    /\ tick_ms = config.tick_ms.min
    /\ seq = 0
    /\ last_tick_time = 0
    /\ price_ = config.price_start
    /\ metrics = ZeroMetrics
    /\ last_price_ = <<>>
    /\ last_published_price_ = <<>>
    /\ last_publish_time_ = <<>>
    /\ clients_ = {}
    /\ pc = [s \in Sinks |-> "none"]
    /\ alive = [s \in Sinks |-> TRUE]
    /\ received = [s \in Sinks |-> <<>>]
    /\ subscribed_at = [s \in Sinks |-> <<>>]
    /\ ticking = TRUE
    /\ fan = <<>>
    /\ stalled = [s \in Sinks |-> FALSE]
    /\ twin = <<>>
    /\ http = <<>>
    /\ ticks = 0
    /\ generated = <<>>
    /\ passes = <<>>
    /\ decisions = <<>>

BootVars == << feed, config, steady_clock, tick_ms, seq, last_tick_time,
               price_, metrics, last_price_, last_published_price_,
               last_publish_time_, clients_, pc, alive, received,
               subscribed_at, ticking, fan, stalled, twin, http, ticks,
               generated, passes, decisions >>

\* main: parse_bind_address and the construction of the acceptor succeed;
\* the server is bound to (host, port).
Binds ==
    /\ boot[1].stage = "configured"
    /\ LET parsed == parse_bind_address(boot[1].bind_addr)
       IN /\ ~parsed.thrown
          /\ ~make_address_throws(parsed.host)
          /\ boot' = << [boot[1] EXCEPT
                           !.stage = "bound",
                           !.parsed = << [host |-> parsed.host,
                                          port |-> parsed.port] >>,
                           !.bound = << [host |-> parsed.host,
                                         port |-> parsed.port] >>] >>
    /\ UNCHANGED BootVars

\* main: an exception reaches catch (const std::exception& e): return 1.
ExitsWithError ==
    /\ boot[1].stage = "configured"
    /\ LET parsed == parse_bind_address(boot[1].bind_addr)
       IN /\ parsed.thrown \/ make_address_throws(parsed.host)
          /\ boot' = << [boot[1] EXCEPT
                           !.stage = "exited",
                           !.parsed = IF parsed.thrown THEN <<>>
                                      ELSE << [host |-> parsed.host,
                                               port |-> parsed.port] >>,
                           !.status = 1] >>
    /\ UNCHANGED BootVars

BootNext == Binds \/ ExitsWithError

SpecBoot == BootInit /\ [][BootNext]_vars

\* ====================================================== the HTTP session
\* One connection served by handle_http_session, next to the ticker.  A
\* request is its target, its HTTP version (10 or 11) and its Connection
\* header ("" when absent); Connection: upgrade stands for a WebSocket
\* upgrade request.
Targets == { "/healthz", "/metrics", "/prices/snapshot", "/oracle/snapshot",
             "/", "/dual.html", "/healthz?probe", "/unknown",
             "/ws/ticks", "/ws/prices" }

Requests == [ target : Targets, version : {10, 11},
              connection : {"", "close", "keep-alive", "upgrade"} ]

StaticFiles == {"index.html", "dual.html", "debug.html"}

\* http::message::keep_alive(): HTTP/1.1 keeps the connection unless the
\* Connection header says close; HTTP/1.0 closes it unless it says
\* keep-alive.
keep_alive(req) ==
    IF req.version < 11 THEN req.connection = "keep-alive"
    ELSE req.connection # "close"

\* websocket::is_upgrade(req): the target plays no part.
is_upgrade(req) == req.version >= 11 /\ req.connection = "upgrade"

\* A request after std::move(req) built the handler's parameter from it:
\* the fields (target and headers) are those of a new object, the version
\* is copied.
moved_from(req) == [req EXCEPT !.target = "", !.connection = ""]

\* handle_http_request, load_static_file and the targets it serves.
static_file(f, target) ==
    IF f # "dex" THEN <<>>
    ELSE IF target \in {"/", "/index.html"} THEN <<"index.html">>
    ELSE IF target = "/dual.html" THEN <<"dual.html">>
    ELSE IF target = "/debug.html" THEN <<"debug.html">>
    ELSE <<>>

snapshot_path(f) == IF f = "dex" THEN "/prices/snapshot" ELSE "/oracle/snapshot"

\* handle_http_request: the lambdas not_found, ok_json, ok_text, ok_html.
not_found(req) ==
    [ status |-> 404, content_type |-> "text/plain", cors |-> "",
      keep_alive |-> keep_alive(req),
      body |-> << "Not found: ", req.target >> ]

ok(req, content_type, body) ==
    [ status |-> 200, content_type |-> content_type, cors |-> "*",
      keep_alive |-> keep_alive(req), body |-> body ]

\* handle_http_request
handle_http_request_any_snapshot(f, req, files, m, last_price, now) ==
    IF req.target = "/healthz" THEN ok(req, "text/plain", <<"OK">>)
    ELSE IF req.target = "/metrics"
    THEN ok(req, "text/plain", << "to_prometheus", m >>)
    ELSE IF req.target \in {"/prices/snapshot", "/oracle/snapshot"}
    THEN ok(req, "application/json",
            << "snapshot", snapshot_prices(last_price),
               current_time_ms(now) >>)
    ELSE IF static_file(f, req.target) # <<>>
            /\ static_file(f, req.target)[1] \in files
    THEN ok(req, "text/html", << "file", static_file(f, req.target)[1] >>)
    ELSE not_found(req)
handle_http_request(f, req, files, m, last_price, now) ==
    IF req.target = "/healthz" THEN ok(req, "text/plain", <<"OK">>)
    ELSE IF req.target = "/metrics"
    THEN ok(req, "text/plain", << "to_prometheus", m >>)
    ELSE IF req.target = snapshot_path(f)
    THEN ok(req, "application/json",
            << "snapshot", snapshot_prices(last_price),
               current_time_ms(now) >>)
    ELSE IF static_file(f, req.target) # <<>>
            /\ static_file(f, req.target)[1] \in files
    THEN ok(req, "text/html", << "file", static_file(f, req.target)[1] >>)
    ELSE not_found(req)

HttpInit ==
    /\ feed \in {"dex", "oracle"}
    /\ config \in Configs(feed)
    /\ config.faults = [p_drop |-> 50, p_dup |-> 50]
    /\ config.gbm_mu <= 0
    /\ steady_clock = 0
    /\ tick_ms \in sample_range(config.tick_ms.min, config.tick_ms.max)
    /\ seq = 0
    /\ last_tick_time = 0
    /\ price_ = config.price_start
    /\ metrics = ZeroMetrics
    /\ last_price_ = <<>>
    /\ last_published_price_ = <<>>
    /\ last_publish_time_ = <<>>
    /\ clients_ = {}
    /\ pc = [s \in Sinks |-> "none"]
    /\ alive = [s \in Sinks |-> TRUE]
    /\ received = [s \in Sinks |-> <<>>]
    /\ subscribed_at = [s \in Sinks |-> <<>>]
    /\ ticking = TRUE
    /\ fan = <<>>
    /\ stalled = [s \in Sinks |-> FALSE]
    /\ twin = <<>>
    /\ boot = <<>>
    /\ \E files \in IF feed = "dex" THEN {{}, StaticFiles} ELSE {{}} :
          http = << [stage |-> "reading", files |-> files, waited |-> 0,
                     req |-> <<>>, response |-> <<>>, answered |-> <<>>,
                     upgraded |-> <<>>, served |-> 0, ended_by |-> ""] >>
    /\ ticks = 0
    /\ generated = <<>>
    /\ passes = <<>>
    /\ decisions = <<>>

HttpVars == << feed, config, steady_clock, tick_ms, seq, last_tick_time,
               price_, metrics, last_price_, last_published_price_,
               last_publish_time_, clients_, pc, alive, received,
               subscribed_at, ticking, fan, stalled, twin, boot, ticks,
               generated, passes, decisions >>

\* handle_http_session, co_await http::async_read: the seconds up to the
\* deadline pass without a request.
HttpWaits ==
    /\ http[1].stage = "reading"
    /\ http[1].waited < HttpIdleSeconds
    /\ http' = << [http[1] EXCEPT !.waited = HttpIdleSeconds] >>
    /\ UNCHANGED HttpVars

\* stream.expires_after(std::chrono::seconds(30)): the read fails with
\* beast::error::timeout, the exception ends the session.
HttpReadTimesOut ==
    /\ http[1].stage = "reading"
    /\ http[1].waited >= HttpIdleSeconds
    /\ http' = << [http[1] EXCEPT !.stage = "closed",
                                  !.ended_by = "timeout"] >>
    /\ UNCHANGED HttpVars

\* co_await http::async_read fails (the peer closed the connection, or
\* the request is malformed): the exception ends the session.
HttpReadFails ==
    /\ http[1].stage = "reading"
    /\ http[1].waited < HttpIdleSeconds
    /\ http' = << [http[1] EXCEPT !.stage = "closed",
                                  !.ended_by = "read error"] >>
    /\ UNCHANGED HttpVars

\* handle_http_session: a request is read; an upgrade request goes to
\* handle_websocket_session, any other to handle_http_request, whose
\* parameter is built from std::move(req), and the write of the response
\* begins.
HttpRequestRead ==
    /\ http[1].stage = "reading"
    /\ http[1].waited < HttpIdleSeconds
    /\ http[1].served < MaxRequests
    /\ \E req \in Requests :
          http' = << IF is_upgrade(req)
                     THEN [http[1] EXCEPT !.stage = "websocket",
                                          !.upgraded = <<req>>,
                                          !.ended_by = "upgrade"]
                     ELSE [http[1] EXCEPT
                             !.stage = "writing",
                             !.req = << moved_from(req) >>,
                             !.response =
                                << handle_http_request(
                                     feed, req, http[1].files, metrics,
                                     last_price_, steady_clock) >>,
                             !.answered =
                                << [request |-> req, continued |-> FALSE] >>]
                  >>
    /\ UNCHANGED HttpVars

\* co_await beast::async_write returns; if (!req.keep_alive()) break;
\* else the loop reads again with a new deadline.
HttpResponseWritten ==
    /\ http[1].stage = "writing"
    /\ LET again == keep_alive(http[1].req[1])
       IN http' = << [http[1] EXCEPT
                        !.stage = IF again THEN "reading" ELSE "closed",
                        !.ended_by = IF again THEN "" ELSE "break",
                        !.waited = 0,
                        !.served = @ + 1,
                        !.answered = << [@[1] EXCEPT !.continued = again] >>]
                  >>
    /\ UNCHANGED HttpVars

\* co_await beast::async_write throws: the exception ends the session.
HttpWriteFails ==
    /\ http[1].stage = "writing"
    /\ http' = << [http[1] EXCEPT !.stage = "closed",
                                  !.ended_by = "write error"] >>
    /\ UNCHANGED HttpVars

\* handle_websocket_session(std::move(raw_socket), state, std::move(req)):
\* the session of the upgraded connection, up to its read loop.
UpgradedSession ==
    /\ http[1].stage = "websocket"
    /\ \/ WsAccepted(SinkOrder[1])
       \/ WsAcceptFails(SinkOrder[1])
       \/ AckWritten(SinkOrder[1])

HttpNext ==
    \/ UpgradedSession
    \/ DexTickerIteration
    \/ OracleTickerIteration
    \/ HttpWaits
    \/ HttpReadTimesOut
    \/ HttpReadFails
    \/ HttpRequestRead
    \/ HttpResponseWritten
    \/ HttpWriteFails

SpecHttp == HttpInit /\ [][HttpNext]_vars

\* ================================================================ claims
\* A step of the ticker: one more iteration is complete.
TickStep == ticks' = ticks + 1

\* The outcome of the last generated tick ("none" before the first).
LastOutcome ==
    IF generated = <<>> THEN "none" ELSE generated[Len(generated)].outcome

\* The price frames among the frames a sink has received, in order.
PriceFrames(log) == SelectSeq(log, LAMBDA f : f.type = "price")

\* The number of the first k generated ticks that the gate did not suppress.
Staged(k) == Cardinality({i \in 1..k : generated[i].outcome # "rejected"})

\* ------------------------------------------------------------------- C1
\* C1: whenever a WebSocket session has terminated, its sink is not a
\* member of the subscriber registry.
C1_TerminatedSinkRemoved ==
    \A c \in Sinks : pc[c] = "done" => c \notin clients_

\* ------------------------------------------------------------------- C2
\* C2 as claimed: src_seq is incremented once for every generated tick,
\* gate-suppressed ticks included: the k-th generated tick carries src_seq
\* k - 1 and after k generated ticks seq is k.
C2_SeqPerGeneratedTick ==
    /\ seq = Len(generated)
    /\ \A k \in 1..Len(generated) : generated[k].src_seq = k - 1

\* C2 as amended: src_seq is incremented once for every generated tick that
\* reaches the drop/broadcast stage (every DEX tick, every Oracle tick the
\* gate accepts), dropped or broadcast; a gate-suppressed tick leaves it
\* unchanged.  The k-th generated tick carries as src_seq the number of
\* earlier ticks that were not suppressed.
C2_SeqPerStagedTick ==
    /\ seq = Staged(Len(generated))
    /\ \A k \in 1..Len(generated) : generated[k].src_seq = Staged(k - 1)

\* A dropped tick followed by a further generated tick.
C2_Witness ==
    /\ Len(generated) = 2
    /\ generated[1].outcome = "dropped"
    /\ generated[2].outcome \in {"broadcast", "rejected"}

\* ------------------------------------------------------------------- C3
\* C3: of two ticks that reach the drop/broadcast stage in different
\* iterations the later has the strictly larger src_seq; the original and
\* the duplicate broadcast of a tick carry the same src_seq; the src_seq of
\* a dropped tick is not reused by a later tick.
C3_SeqStrictlyIncreasing ==
    /\ \A i, j \in 1..Len(generated) :
         ( /\ i < j
           /\ generated[i].outcome # "rejected"
           /\ generated[j].outcome # "rejected" )
         => generated[i].src_seq < generated[j].src_seq
    /\ \A i, j \in 1..Len(generated) :
         (i < j /\ generated[i].outcome = "dropped")
         => generated[j].src_seq # generated[i].src_seq
    /\ \A i \in 1..Len(passes) :
         passes[i].msg.src_seq = generated[Len(generated)].src_seq

\* A dropped tick, then a tick broadcast with its duplicate.
C3_Witness ==
    /\ Len(generated) = 2
    /\ generated[1].outcome = "dropped"
    /\ generated[2].outcome = "broadcast"
    /\ Len(passes) = 2

\* ------------------------------------------------------------------- C4
\* C4: in the Oracle feed every broadcast of a tick implies that no price
\* had been published before, or the truncated deviation in basis points of
\* its price from last_published_price is >= oracle_deviation_bps, or the
\* time since last_publish_time is >= oracle_heartbeat_ms.
C4_OracleGate ==
    [][ (feed = "oracle" /\ TickStep /\ passes' # <<>>)
        => \/ last_published_price_ = <<>>
           \/ deviation_bps(passes'[1].msg.price, last_published_price_[1])
                >= config.deviation_bps
           \/ steady_clock' - last_publish_time_[1] >= config.heartbeat_ms
      ]_vars

\* An Oracle tick broadcast after an earlier publication.
C4_Witness ==
    /\ feed = "oracle"
    /\ Len(generated) = 2
    /\ generated[1].outcome # "rejected"
    /\ generated[2].outcome = "broadcast"

\* ------------------------------------------------------------------- C5
\* C5: whenever the Oracle gate accepts a tick, last_published_price and
\* last_publish_time are that tick's price and generation time when the
\* iteration ends, whether the frame was broadcast or dropped; so the tick
\* after a dropped one is gated against the dropped tick's price and time:
\* with a deviation below the threshold and less than the heartbeat elapsed
\* since the dropped tick it is suppressed.
C5_MarkedOnEveryAcceptance ==
    [][ (feed = "oracle" /\ TickStep)
        => LET outcome == generated'[Len(generated')].outcome
           IN /\ outcome \in {"dropped", "broadcast"}
                 => /\ last_published_price_' = << price_' >>
                    /\ last_publish_time_' = << steady_clock' >>
              /\ ( /\ LastOutcome = "dropped"
                   /\ deviation_bps(price_', price_) < config.deviation_bps
                   /\ steady_clock' - steady_clock < config.heartbeat_ms )
                 => outcome = "rejected"
      ]_vars

\* A dropped Oracle tick followed by a suppressed one.
C5_Witness ==
    /\ feed = "oracle"
    /\ Len(generated) = 2
    /\ generated[1].outcome = "dropped"
    /\ generated[2].outcome = "rejected"

\* ------------------------------------------------------------------- C6
\* C6: an Oracle iteration whose tick the gate rejects leaves unchanged the
\* four counters, last_published_price, last_publish_time, the snapshot
\* store and every sink, and takes no drop or duplicate decision.
C6_RejectedTickLeavesNoTrace ==
    [][ ( /\ feed = "oracle"
          /\ TickStep
          /\ generated'[Len(generated')].outcome = "rejected" )
        => /\ metrics' = metrics
           /\ last_published_price_' = last_published_price_
           /\ last_publish_time_' = last_publish_time_
           /\ last_price_' = last_price_
           /\ received' = received
           /\ passes' = <<>>
           /\ decisions' = <<>>
      ]_vars

\* A rejected tick with a subscriber that has received a price frame.
C6_Witness ==
    /\ feed = "oracle"
    /\ LastOutcome = "rejected"
    /\ last_price_ # <<>>
    /\ \E c \in clients_ : PriceFrames(received[c]) # <<>>

\* ------------------------------------------------------------------- C7
\* C7: every DEX iteration either drops its tick (ws_frames_dropped + 1, no
\* sink write, snapshot store unchanged) or broadcasts it to the registry
\* (ws_frames_sent + 1), optionally followed by one duplicate broadcast;
\* never neither, never both.
C7_Dropped ==
    /\ metrics' = [metrics EXCEPT !.price_ticks_generated = @ + 1,
                                  !.ws_frames_dropped = @ + 1]
    /\ passes' = <<>>
    /\ received' = received
    /\ last_price_' = last_price_

C7_Broadcast ==
    /\ metrics'.ws_frames_sent = metrics.ws_frames_sent + 1
    /\ metrics'.ws_frames_dropped = metrics.ws_frames_dropped
    /\ metrics'.price_ticks_generated = metrics.price_ticks_generated + 1
    /\ Len(passes') \in {1, 2}
    /\ metrics'.ws_frames_duplicated =
         metrics.ws_frames_duplicated + Len(passes') - 1
    /\ \A i \in 1..Len(passes') :
         /\ passes'[i].attempted = clients_
         /\ passes'[i].msg = passes'[1].msg
    /\ last_price_' = << passes'[1].msg >>

C7_DexDropOrBroadcast ==
    [][ (feed = "dex" /\ TickStep)
        => /\ C7_Dropped \/ C7_Broadcast
           /\ ~(C7_Dropped /\ C7_Broadcast)
      ]_vars

\* A DEX run with a dropped tick and a broadcast tick, with a subscriber.
C7_Witness ==
    /\ feed = "dex"
    /\ Len(generated) = 2
    /\ generated[1].outcome = "dropped"
    /\ generated[2].outcome = "broadcast"
    /\ \E c \in clients_ : PriceFrames(received[c]) # <<>>

\* ------------------------------------------------------------------- C8
\* C8: with p_drop = 1.0 and p_dup = 0.0, after N DEX iterations
\* price_ticks_generated = N, ws_frames_dropped = N, ws_frames_sent = 0,
\* ws_frames_duplicated = 0, no sink has received a price frame and the
\* snapshot store is empty.
AllDropped == config.faults = [p_drop |-> 100, p_dup |-> 0]

AllDuplicated == config.faults = [p_drop |-> 0, p_dup |-> 100]

WholeRun(c) == c \in clients_ /\ subscribed_at[c] = <<0>> /\ alive[c]

C10_FailureDoesNotAbortPass ==
    [][ TickStep
        => /\ clients_' = clients_
           /\ \A i \in 1..Len(passes') :
                /\ passes'[i].registry = clients_
                /\ passes'[i].attempted = clients_
                /\ passes'[i].failed = {c \in clients_ : ~alive[c]}
      ]_vars

\* A pass over two sinks in which the write on the first one failed.
C10_Witness ==
    /\ passes # <<>>
    /\ passes[1].attempted = {"s1", "s2"}
    /\ passes[1].failed = {"s1"}
    /\ PriceFrames(received["s2"]) # <<>>

\* ------------------------------------------------------------------ C11
\* C11: on every sink the price frames arrive in issue order: their src_seq
\* never decreases, and frames carrying the same src_seq are an original
\* and its duplicate, identical and adjacent, with no frame of another
\* tick between them.
C11_IssueOrder ==
    \A c \in Sinks :
        LET frames == PriceFrames(received[c])
        IN \A i, j \in 1..Len(frames) :
             i < j
             => /\ frames[i].src_seq <= frames[j].src_seq
                /\ frames[i].src_seq = frames[j].src_seq
                     => /\ j = i + 1
                        /\ frames[i] = frames[j]

\* A sink that received an original, its duplicate and then a later tick.
C11_Witness ==
    \E c \in Sinks :
        LET frames == PriceFrames(received[c])
        IN /\ Len(frames) >= 3
           /\ frames[1] = frames[2]
           /\ frames[3].src_seq > frames[2].src_seq

\* ------------------------------------------------------------------ C14
\* C14: the snapshot endpoint's prices list is empty exactly when no tick
\* has been broadcast yet; otherwise it holds exactly one tick, the tick of
\* the latest broadcast_price call, so a dropped or gate-rejected tick
\* never appears in it.
BroadcastTicks == {i \in 1..Len(generated) : generated[i].outcome = "broadcast"}

C14_SnapshotIsLatestBroadcast ==
    LET prices == snapshot_prices(last_price_)
    IN /\ prices = <<>> <=> BroadcastTicks = {}
       /\ BroadcastTicks # {}
            => /\ Len(prices) = 1
               /\ \E i \in BroadcastTicks :
                    /\ \A j \in BroadcastTicks : j <= i
                    /\ prices[1].src_seq = generated[i].src_seq
               /\ LastOutcome = "broadcast"
                    => prices[1] = passes[Len(passes)].msg

\* A broadcast tick followed by a tick that was not broadcast: the snapshot
\* still holds the first one.
C14_Witness ==
    /\ Len(generated) = 2
    /\ generated[1].outcome = "broadcast"
    /\ generated[2].outcome # "broadcast"
    /\ snapshot_prices(last_price_) # <<>>
    /\ snapshot_prices(last_price_)[1].src_seq = generated[1].src_seq

\* ------------------------------------------------------------------ C15
\* C15: an accepted WebSocket session is sent exactly one subscription
\* acknowledgement, with id "dex_ticks" (DEX) or "oracle_prices" (Oracle)
\* and status "subscribed", never a second one, and its sink is in the
\* registry by the time the ack write starts.
Acks(log) == SelectSeq(log, LAMBDA f : f.type = "subscription")

C15_OneAck ==
    \A c \in Sinks :
        LET acks == Acks(received[c])
        IN /\ Len(acks) <= 1
           /\ \A i \in 1..Len(acks) :
                acks[i] = [ type |-> "subscription",
                            id |-> IF feed = "dex" THEN "dex_ticks"
                                   ELSE "oracle_prices",
                            status |-> "subscribed" ]
           /\ pc[c] = "none" => acks = <<>>
           /\ pc[c] = "ack_write" => c \in clients_ /\ acks = <<>>
           /\ pc[c] = "ws_read" => Len(acks) = 1

\* An Oracle subscriber that got its ack and then a price frame.
C15_Witness ==
    /\ feed = "oracle"
    /\ \E c \in Sinks :
        /\ pc[c] = "ws_read"
        /\ Len(received[c]) >= 2
        /\ received[c][1].type = "subscription"
        /\ received[c][2].type = "price"

\* ------------------------------------------------------------------ C13
\* C13: the ticker loop is never stopped by a per-tick or per-connection
\* error: it stays alive, and under fair scheduling every iteration is
\* followed by the next one (up to the bound of the run), whatever sink
\* write failed, session failed or ended, or tick was dropped before.
C13_TickerNeverStopped ==
    /\ []ticking
    /\ \A k \in 0..(MaxTicks - 1) : (ticks = k) ~> (ticks = k + 1)

\* A second iteration completed after the first one was broadcast to a
\* registered sink whose write failed and whose session then ended.
C13_Witness ==
    /\ ticks = 2
    /\ generated[1].outcome = "broadcast"
    /\ \E c \in Sinks :
        /\ subscribed_at[c] = <<0>>
        /\ PriceFrames(received[c]) = <<>>
        /\ pc[c] = "done"

\* ------------------------------------------------------------------ C12
\* C12: while a write of a pass on a slow sink has not completed, only that
\* sink is held back: the write of the pass on every other registered sink
\* that is ready can go ahead, and the ticker can take a step towards its
\* next tick.
C12_SlowSinkHoldsOnlyItself ==
    \A c \in Sinks :
        (writing_to(c) /\ alive[c] /\ stalled[c])
        => /\ \A d \in fan[1].registry \ (fan[1].attempted \cup {c}) :
                (alive[d] /\ ~stalled[d]) => ENABLED WriteReturns(d)
           /\ ENABLED ( \/ \E d \in Sinks : WriteReturns(d) \/ WriteThrows(d)
                        \/ FirstPassReturns
                        \/ DuplicatePassReturns )

\* ------------------------------------------------------- two runs compared
\* The ticks both runs have generated.
Common ==
    1..(IF Len(twin[1].log) < Len(twin[2].log)
        THEN Len(twin[1].log) ELSE Len(twin[2].log))

SameConfig == twin[1].cfg = twin[2].cfg

SameEngine ==
    /\ twin[1].cfg.gbm_mu = twin[2].cfg.gbm_mu
    /\ twin[1].cfg.gbm_sigma = twin[2].cfg.gbm_sigma
    /\ twin[1].cfg.price_start = twin[2].cfg.price_start

SameFaults ==
    /\ twin[1].cfg.faults = twin[2].cfg.faults
    /\ twin[1].cfg.tick_ms = twin[2].cfg.tick_ms
    /\ twin[1].cfg.delay_ms = twin[2].cfg.delay_ms

\* Both runs took the same decision at the gate for tick j.
GatesAgree(j) ==
    (twin[1].log[j].outcome = "rejected") <=> (twin[2].log[j].outcome = "rejected")

\* The publication before tick k of a log whose first tick was published.
LastPublished(log, k) ==
    CHOOSE j \in 1..(k - 1) :
        /\ log[j].outcome = "broadcast"
        /\ \A i \in (j + 1)..(k - 1) : log[i].outcome # "broadcast"

\* ------------------------------------------------------------------ C16
\* C16 as claimed: two runs with the same seed and the same configuration
\* generate the same sequence of (src_seq, price) pairs, whatever their
\* timing and the outcomes of their sink writes.
C16_SameSeedSamePairs ==
    SameConfig
    => /\ Len(twin[1].log) = Len(twin[2].log)
       /\ \A k \in Common :
            /\ twin[1].log[k].src_seq = twin[2].log[k].src_seq
            /\ twin[1].log[k].price = twin[2].log[k].price

\* C16 amended: two such runs generate the same sequence of prices whatever
\* their timing and write outcomes; the src_seq are the same too in the DEX
\* feed, and in the Oracle feed as far as the monotonic times of the
\* earlier ticks are the same.
C16_SameSeedSamePrices ==
    SameConfig
    => /\ Len(twin[1].log) = Len(twin[2].log)
       /\ \A k \in Common :
            /\ twin[1].log[k].price = twin[2].log[k].price
            /\ feed = "dex" => twin[1].log[k].src_seq = twin[2].log[k].src_seq
            /\ (\A j \in 1..(k - 1) : twin[1].log[j].now = twin[2].log[j].now)
                 => twin[1].log[k].src_seq = twin[2].log[k].src_seq

\* Two runs of one configuration whose second ticks came at different
\* times and met different fates.
C16_Witness ==
    /\ SameConfig
    /\ Len(twin[1].log) = 3
    /\ Len(twin[2].log) = 3
    /\ twin[1].log[2].now # twin[2].log[2].now
    /\ twin[1].log[2].outcome # twin[2].log[2].outcome

C18_SameSeedSameDraws ==
    (SameFaults /\ ~SameEngine)
    => \A k \in Common :
         (\A j \in 1..k : twin[1].log[j].late = twin[2].log[j].late)
         => /\ twin[1].log[k].tick_ms = twin[2].log[k].tick_ms
            /\ twin[1].log[k].delay_ms = twin[2].log[k].delay_ms
            /\ (twin[1].log[k].drop # <<>> /\ twin[2].log[k].drop # <<>>)
                 => twin[1].log[k].drop = twin[2].log[k].drop
            /\ (twin[1].log[k].dup # <<>> /\ twin[2].log[k].dup # <<>>)
                 => twin[1].log[k].dup = twin[2].log[k].dup

\* C18 amended: with the same seed and fault configuration the delays of
\* the k-th tick are the same in both runs as long as their gates agreed on
\* the earlier ticks (in the DEX feed, which has no gate, always), and so
\* are its drop and duplicate decisions when the gates agree on it too.
C18_SameDrawsWhileGatesAgree ==
    SameFaults
    => \A k \in Common :
         (\A j \in 1..(k - 1) : GatesAgree(j))
         => /\ twin[1].log[k].tick_ms = twin[2].log[k].tick_ms
            /\ twin[1].log[k].delay_ms = twin[2].log[k].delay_ms
            /\ GatesAgree(k)
                 => /\ twin[1].log[k].drop = twin[2].log[k].drop
                    /\ twin[1].log[k].dup = twin[2].log[k].dup

\* Two runs whose prices differ and whose gates agreed on three ticks.
C18_Witness ==
    /\ SameFaults
    /\ ~SameEngine
    /\ Len(twin[1].log) = 3
    /\ Len(twin[2].log) = 3
    /\ \A j \in 1..3 : GatesAgree(j)
    /\ twin[1].log[3].price # twin[2].log[3].price
    /\ twin[1].log[3].drop # <<>>

\* ------------------------------------------------------------------ C19
\* C19: in an Oracle run without drops and duplicates whose deviation
\* trigger never fires, a tick after the first publication is published
\* exactly when at least heartbeat_ms of monotonic time has passed since
\* the previous publication (hence consecutive frames are at least
\* heartbeat_ms apart and the first tick at or after that time is
\* published).
Quiet(cfg) ==
    /\ cfg.faults = [p_drop |-> 0, p_dup |-> 0]
    /\ cfg.gbm_mu = 0
    /\ cfg.gbm_sigma = 0

C19_HeartbeatOnly ==
    feed = "oracle"
    => \A i \in 1..Len(twin) :
         Quiet(twin[i].cfg)
         => LET log == twin[i].log
            IN \A k \in 2..Len(log) :
                 log[k].outcome = "broadcast"
                 <=> log[k].now - log[LastPublished(log, k)].now
                        >= twin[i].cfg.heartbeat_ms

\* A quiet run: the second tick came too early and was suppressed, the
\* third one was published by the heartbeat.
C19_Witness ==
    /\ feed = "oracle"
    /\ twin # <<>>
    /\ Quiet(twin[1].cfg)
    /\ Len(twin[1].log) = 3
    /\ twin[1].log[2].outcome = "rejected"
    /\ twin[1].log[3].outcome = "broadcast"

\* ------------------------------------------------------------------ C20
\* C20: in an Oracle run without drops, a tick after the first that comes
\* before the heartbeat interval has passed is broadcast exactly when its
\* price differs from the last published price, upward or downward, by at
\* least oracle_deviation_bps basis points.
C20_DeviationFromLastPublished ==
    feed = "oracle"
    => \A i \in 1..Len(twin) :
         twin[i].cfg.faults.p_drop = 0
         => LET log == twin[i].log
            IN \A k \in 2..Len(log) :
                 LET last == log[LastPublished(log, k)]
                 IN log[k].now - last.now < twin[i].cfg.heartbeat_ms
                    => ( log[k].outcome = "broadcast"
                         <=> Abs(log[k].price - last.price) * 10000
                                >= twin[i].cfg.deviation_bps * last.price )

\* A run whose price crept away: the second tick was within the threshold
\* of the published first one, the third one is beyond it although it is
\* within the threshold of the second.
C20_Witness ==
    /\ feed = "oracle"
    /\ twin # <<>>
    /\ twin[1].cfg.faults.p_drop = 0
    /\ Len(twin[1].log) = 3
    /\ twin[1].log[2].outcome = "rejected"
    /\ twin[1].log[3].outcome = "broadcast"
    /\ twin[1].log[3].now - twin[1].log[1].now < twin[1].cfg.heartbeat_ms
    /\ Abs(twin[1].log[3].price - twin[1].log[2].price) * 10000
          < twin[1].cfg.deviation_bps * twin[1].log[2].price

\* ------------------------------------------------------------------ C21
\* C21: the price of every tick that GbmPriceEngine::next_tick returns, and
\* so the engine's price after any call, is at least 0.01, for every start
\* price, drift, volatility and sequence of draws.
C21_PriceAtLeastFloor == ticks > 0 => price_ >= PriceFloor

\* ------------------------------------------------------------------ C22
\* C22: parse_bind_address returns (host, port) exactly for the inputs
\* "host:port" whose port is a decimal integer in 0..65535; for every other
\* input it raises an error and the process exits with a non-zero status
\* without binding.
WellFormedAddr(text) ==
    \E i \in 1..Len(text) :
        /\ text[i] = ":"
        /\ \A j \in 1..(i - 1) : text[j] # ":"
        /\ i < Len(text)
        /\ \A j \in (i + 1)..Len(text) : is_digit(text[j])
        /\ decimal(SubSeq(text, i + 1, Len(text))) <= 65535

C22_ParseBindAddress ==
    (boot # <<>> /\ boot[1].stage # "configured")
    => LET text == boot[1].bind_addr
       IN IF WellFormedAddr(text)
          THEN /\ boot[1].parsed # <<>>
               /\ \E i \in 1..Len(text) :
                    /\ boot[1].parsed[1].host = SubSeq(text, 1, i - 1)
                    /\ text[i] = ":"
                    /\ boot[1].parsed[1].port
                         = decimal(SubSeq(text, i + 1, Len(text)))
          ELSE /\ boot[1].parsed = <<>>
               /\ boot[1].stage = "exited"
               /\ boot[1].status # 0
               /\ boot[1].bound = <<>>

\* ------------------------------------------------------------------ C23
\* C23: a non-upgrade request for /healthz, /metrics or the feed's snapshot
\* path is answered 200 with Access-Control-Allow-Origin: *; a request for
\* a target that is not a listed path of the feed is answered 404,
\* text/plain, with the body "Not found: " followed by the target.
ListedPaths ==
    {"/healthz", "/metrics"}
    \cup (IF feed = "dex"
          THEN {"/prices/snapshot", "/", "/index.html", "/dual.html",
                "/debug.html", "/ws/ticks"}
          ELSE {"/oracle/snapshot", "/ws/prices"})

Answering == http # <<>> /\ http[1].stage = "writing"

C23_HttpResponses ==
    Answering
    => LET target == http[1].answered[1].request.target
           res == http[1].response[1]
       IN /\ target \in {"/healthz", "/metrics"}
                        \cup (ListedPaths \cap {"/prices/snapshot",
                                                "/oracle/snapshot"})
             => res.status = 200 /\ res.cors = "*"
          /\ target \notin ListedPaths
             => /\ res.status = 404
                /\ res.content_type = "text/plain"
                /\ res.body = << "Not found: ", target >>

C23_Witness ==
    /\ Answering
    /\ feed = "dex"
    /\ http[1].answered[1].request.target = "/oracle/snapshot"
    /\ http[1].response[1].status = 404
    /\ http[1].served > 0
    /\ metrics.price_ticks_generated > 0

\* ------------------------------------------------------------------ C29
\* C29: after the response to a non-upgrade request is written, the session
\* reads a further request on the connection if and only if the request
\* asked for keep-alive (HTTP/1.1 without Connection: close, or HTTP/1.0
\* with Connection: keep-alive), and a connection that stays idle is closed
\* after 30 seconds.
AsksKeepAlive(request) ==
    \/ request.version = 11 /\ request.connection # "close"
    \/ request.version = 10 /\ request.connection = "keep-alive"

ResponseWritten ==
    /\ http # <<>>
    /\ http[1].answered # <<>>
    /\ http[1].stage # "writing"
    /\ http[1].ended_by # "write error"

C29_KeepAliveHonoured ==
    /\ ResponseWritten
       => (http[1].answered[1].continued
           <=> AsksKeepAlive(http[1].answered[1].request))
    /\ http # <<>>
       => /\ http[1].waited <= HttpIdleSeconds
          /\ http[1].ended_by = "timeout" => http[1].waited = HttpIdleSeconds
          /\ (http[1].stage = "reading" /\ http[1].waited = HttpIdleSeconds)
             => ENABLED HttpReadTimesOut

\* ------------------------------------------------------------------ C24
\* C24: sample_range returns a value between its bounds, and the lower
\* bound without a draw when the bounds are equal; so, with burst mode off,
\* every delay the ticker sleeps and every simulated delay_ms lies in its
\* configured range.
Runs == IF twin = <<>> THEN {} ELSE {1, 2}

Entries(i) == 1..Len(twin[i].log)

C24_SamplesInRange ==
    \A i \in Runs : \A k \in Entries(i) :
        LET e == twin[i].log[k]
            cfg == twin[i].cfg
        IN /\ cfg.tick_ms.min <= e.tick_draw.sample
           /\ e.tick_draw.sample <= cfg.tick_ms.max
           /\ ~cfg.burst_mode
              => /\ cfg.tick_ms.min <= e.tick_ms
                 /\ e.tick_ms <= cfg.tick_ms.max
           /\ cfg.delay_ms.min <= e.delay_ms
           /\ e.delay_ms <= cfg.delay_ms.max
           /\ cfg.delay_ms.min = cfg.delay_ms.max
              => /\ e.delay_ms = cfg.delay_ms.min
                 /\ e.delay_rngs[2] = e.delay_rngs[1]

C24_Witness ==
    /\ twin # <<>>
    /\ twin[2].cfg.delay_ms.min = twin[2].cfg.delay_ms.max
    /\ Len(twin[2].log) >= 2
    /\ \E k \in Entries(1) :
          /\ twin[1].log[k].delay_ms = twin[1].cfg.delay_ms.max
          /\ twin[1].log[k].delay_rngs[2] # twin[1].log[k].delay_rngs[1]
          /\ twin[1].log[k].tick_ms = twin[1].cfg.tick_ms.max
    /\ \E k \in Entries(1) :
          twin[1].log[k].tick_ms = twin[1].cfg.tick_ms.min

\* ------------------------------------------------------------------ C26
\* C26: a generated tick is flagged stale exactly when the monotonic time
\* since the previous tick of the loop (since the start of the ticker for
\* the first tick) exceeds stale_after_ms, whatever became of the previous
\* tick: dropped, rejected by the gate or broadcast.
PreviousTickTime(i, k) == IF k = 1 THEN 0 ELSE twin[i].log[k - 1].now

C26_StaleIffGapExceeds ==
    \A i \in Runs : \A k \in Entries(i) :
        twin[i].log[k].stale
        <=> twin[i].log[k].now - PreviousTickTime(i, k)
               > twin[i].cfg.stale_after_ms

C26_Witness ==
    /\ twin # <<>>
    /\ \E k \in Entries(1) :
          /\ k > 1
          /\ twin[1].log[k - 1].outcome \in {"dropped", "rejected"}
          /\ twin[1].log[k - 1].stale
          /\ ~twin[1].log[k].stale
          /\ twin[1].log[k].now - twin[1].log[k - 1].now
                = twin[1].cfg.stale_after_ms

\* ------------------------------------------------------------------ C28
\* C28: in the DEX ticker with burst mode on, the delay slept is
\* min(sample, burst_on_ms) on heads and max(sample, burst_off_ms) on
\* tails, so it is at most burst_on_ms or at least burst_off_ms; the sample
\* is the first draw of the iteration's delay, the coin the next, and the
\* simulated delay is sampled after the coin.  With burst mode off no coin
\* is drawn and the delay slept is the sample.
C28_BurstDelays ==
    \A i \in Runs : \A k \in Entries(i) :
        LET e == twin[i].log[k]
            d == e.tick_draw
            cfg == twin[i].cfg
            sampled == sample_range_from(d.from, cfg.tick_ms.min,
                                         cfg.tick_ms.max)
        IN /\ d.sample = sampled.value
           /\ e.tick_ms = d.value
           /\ e.delay_rngs[1] = d.rng
           /\ IF feed = "dex" /\ cfg.burst_mode
              THEN /\ d.coin = << happens_from(sampled.rng, 50).value >>
                   /\ d.rng = happens_from(sampled.rng, 50).rng
                   /\ d.coin[1]
                      => /\ e.tick_ms <= d.sample
                         /\ e.tick_ms <= cfg.burst_on_ms
                         /\ e.tick_ms \in {d.sample, cfg.burst_on_ms}
                   /\ ~d.coin[1]
                      => /\ e.tick_ms >= d.sample
                         /\ e.tick_ms >= cfg.burst_off_ms
                         /\ e.tick_ms \in {d.sample, cfg.burst_off_ms}
              ELSE /\ d.coin = <<>>
                   /\ d.rng = sampled.rng
                   /\ e.tick_ms = d.sample

C28_Witness ==
    /\ twin # <<>>
    /\ feed = "dex"
    /\ twin[1].cfg.burst_mode
    /\ \E k \in Entries(1) :
          LET e == twin[1].log[k]
          IN e.tick_draw.coin = <<TRUE>> /\ e.tick_ms < e.tick_draw.sample
    /\ \E k \in Entries(1) :
          LET e == twin[1].log[k]
          IN e.tick_draw.coin = <<FALSE>> /\ e.tick_ms > e.tick_draw.sample

\* ------------------------------------------------------------------ C25
\* C25: no step of the ticker or of a session decreases any of the four
\* counters; a counter changes only in a step of the ticker loop, and then
\* by one.
Counters == { "price_ticks_generated", "ws_frames_sent",
              "ws_frames_dropped", "ws_frames_duplicated" }

C25_CountersMonotone ==
    [][ /\ \A k \in Counters : metrics'[k] \in {metrics[k], metrics[k] + 1}
        /\ metrics' # metrics => TickStep ]_vars

C25_Witness ==
    /\ metrics.ws_frames_dropped > 0
    /\ metrics.ws_frames_duplicated > 0
    /\ metrics.ws_frames_sent > 0
    /\ \E c \in Sinks : pc[c] # "none"

\* ------------------------------------------------------------------ C27
\* C27: in an iteration the drop decision is taken before any write to a
\* sink, the duplicate decision only when the first pass has finished, and
\* none for a dropped tick: a dropped tick reaches no sink, and
\* ws_frames_duplicated increases only in an iteration in which
\* ws_frames_sent has increased.
FrameWritten == \E c \in Sinks : Len(received'[c]) > Len(received[c])
                                  /\ received'[c][Len(received'[c])].type = "price"

C27_DropBroadcastDup ==
    [][ /\ FrameWritten
           => /\ fan # <<>>
              /\ decisions = IF fan[1].second
                             THEN << "drop", "broadcast", "dup", "broadcast" >>
                             ELSE << "drop", "broadcast" >>
              /\ decisions' = decisions
        /\ (Len(decisions') > 2 /\ decisions' # decisions)
           => /\ fan # <<>>
              /\ ~fan[1].second
              /\ fan[1].i > Len(SinkOrder)
              /\ metrics'.ws_frames_sent = metrics.ws_frames_sent + 1
        /\ metrics'.ws_frames_duplicated # metrics.ws_frames_duplicated
           => /\ passes # <<>>
              /\ fan # <<>>
              /\ passes[1].msg.src_seq = fan[1].msg.src_seq
              /\ "dup" \in {decisions[j] : j \in 1..Len(decisions)}
        /\ (Len(generated') > Len(generated)
            /\ generated'[Len(generated')].outcome = "dropped")
           => /\ decisions' = << "drop" >>
              /\ received' = received
              /\ metrics'.ws_frames_sent = metrics.ws_frames_sent
              /\ metrics'.ws_frames_duplicated = metrics.ws_frames_duplicated
      ]_vars

C27_Witness ==
    /\ metrics.ws_frames_dropped > 0
    /\ metrics.ws_frames_duplicated > 0
    /\ fan = <<>>
    /\ \E c \in Sinks : Len(PriceFrames(received[c])) >= 2

\* ------------------------------------------------------------------ C30
\* C30: while a broadcast pass iterates over the registry (the ticker holds
\* clients_mutex_) the registry is the set the pass began with and no
\* session step runs; the registry changes only by add_client or
\* remove_client of one sink; and the holder of the lock never waits for
\* the lock: the pass can take its next step, or waits for the peer of the
\* sink it is writing to.
PassCanGoOn ==
    \/ ENABLED FirstPassReturns
    \/ ENABLED DuplicatePassReturns
    \/ \E c \in Sinks :
         \/ ENABLED WriteReturns(c)
         \/ ENABLED WriteThrows(c)
         \/ writing_to(c) /\ stalled[c] /\ ENABLED SinkDrains(c)

RegistryHeld ==
    fan # <<>>
    => /\ clients_ = fan[1].registry
       /\ ~ENABLED SessionStep
       /\ PassCanGoOn

RegistryChange ==
    clients_' # clients_
    => /\ fan = <<>>
       /\ fan' = <<>>
       /\ \E c \in Sinks : \/ clients_' = add_client(clients_, c)
                           \/ clients_' = remove_client(clients_, c)

C30_RegistryExclusive == [](RegistryHeld) /\ [][RegistryChange]_vars

C30_Witness ==
    /\ fan # <<>>
    /\ fan[1].registry = Sinks
    /\ fan[1].attempted # {}
    /\ fan[1].i <= Len(SinkOrder)
    /\ \E c \in Sinks : pc[c] = "closed" \/ ~alive[c]

\* ------------------------------------------------------------------ C31
\* C31: at most one write is in flight on a sink: no price frame is written
\* to a sink while the acknowledgement write its session started after
\* add_client has not completed.
C31_OneWriteInFlight ==
    \A c \in Sinks :
        pc[c] = "ack_write" => PriceFrames(received[c]) = <<>>

\* ------------------------------------------------------------------ C32
\* C32: at the end of every ticker iteration price_ticks_generated equals
\* ws_frames_dropped + ws_frames_sent, ws_frames_duplicated is at most
\* ws_frames_sent, and the ticker's next src_seq equals
\* price_ticks_generated.
C32_CounterAccounting ==
    /\ metrics.price_ticks_generated
          = metrics.ws_frames_dropped + metrics.ws_frames_sent
    /\ metrics.ws_frames_duplicated <= metrics.ws_frames_sent
    /\ seq = metrics.price_ticks_generated

C32_Witness ==
    /\ ticks = MaxTicks
    /\ seq = MaxTicks
    /\ metrics.ws_frames_dropped > 0
    /\ metrics.ws_frames_duplicated = metrics.ws_frames_sent

\* ------------------------------------------------------------------ C33
\* C33: ws_frames_sent increases by one for each tick that is not dropped
\* (nor rejected by the gate), whatever the number of registered sinks and
\* whatever the outcome of the writes, and ws_frames_duplicated by one for
\* each duplicate pass.
C33_SentCountsPasses ==
    [][ TickStep
        => /\ metrics'.ws_frames_sent
                = metrics.ws_frames_sent
                  + (IF LastOutcome' = "broadcast" THEN 1 ELSE 0)
           /\ metrics'.ws_frames_duplicated
                = metrics.ws_frames_duplicated
                  + (IF Len(passes') = 2 THEN 1 ELSE 0)
           /\ LastOutcome' = "broadcast" <=> Len(passes') >= 1 ]_vars

C33_Witness ==
    /\ metrics.ws_frames_sent = 2
    /\ metrics.ws_frames_duplicated = 1
    /\ \A c \in Sinks : PriceFrames(received[c]) = <<>>
    /\ Len(passes) = 2
    /\ passes[1].attempted # {}
    /\ passes[1].failed = passes[1].attempted
    /\ passes[2].failed = passes[2].attempted

\* ------------------------------------------------------------------ C34
\* C34: a WebSocket upgrade is performed and a sink registered only for a
\* request whose target is the feed's WebSocket path, /ws/ticks for the DEX
\* and /ws/prices for the Oracle.
WsPath == IF feed = "dex" THEN "/ws/ticks" ELSE "/ws/prices"

C34_UpgradeOnlyOnWsPath ==
    (http # <<>> /\ (http[1].stage = "websocket" \/ clients_ # {}))
    => /\ http[1].upgraded # <<>>
       /\ http[1].upgraded[1].target = WsPath

====
